---- MODULE Spec2Model ----
(***************************************************************************)
(* Model of the lending core of biblioteca_ucc: the resource taxonomy, the *)
(* base loan (PrestamoBase), the service decorators, the fine strategies.  *)
(*                                                                         *)
(* Time is counted in ticks, TicksPorDia ticks to a day, so that           *)
(* timedelta.days (a floor to whole days) is a real conversion.  Money is  *)
(* counted in thousandths of a peso-dollar, so that round(x, 2) is a real  *)
(* rounding to hundredths.                                                 *)
(***************************************************************************)
EXTENDS Integers, Sequences, FiniteSets, TLC

\* ---------------------------------------------------------------- bounds
TicksPorDia == 2
\* the session (Spec): objects created, fine lines per invoice
MaxObjetos == 4
MaxMultasPorFactura == 1
\* the chain of decorators (SpecCadena)
MaxDecoradores == 4
\* one loan and its fines (SpecMulta)
MaxReloj == 2
MaxDiasSimulados == 4
MaxDiasDirectos == 1
\* the strategies called directly (SpecEstrategia)
MaxDiasRetraso == 12
\* decorators, invoices and fine items of the invoicing of one loan
MaxObjetosFactura == 5
\* resources of the inventory (SpecInventario)
MaxRecursos == 3
\* SpecMultaFacturada: days of lateness simulated; invoices and fine items
MaxDiasFacturados == 4
MaxLineasFacturadas == 2
\* SpecInterfaz: resources registered, loan objects built, invoices numbered
MaxRecursosInterfaz == 2
MaxNodosInterfaz == 4
MaxFacturasInterfaz == 1

\* ------------------------------------------------------ program constants
COSTO_SERVICIO_SMS == 5000
COSTO_RESERVA_PREFERENCIAL == 10000
DIAS_ADICIONALES == 7
COSTO_SEGURO == 15000

TARIFA_BASE_DIA_ESTUDIANTE == 2000
ANTIGUEDAD_UMBRAL_DIAS == 365 * 5
DESCUENTO_RECURSO_ANTIGUO_MILESIMAS == 500
MULTA_MINIMA_ESTUDIANTE == 1000
TARIFA_BASE_DIA_DOCENTE == 1000
DIAS_GRACIA == 3
TARIFA_INICIAL == 3000
INCREMENTO_DIARIO == 500
TARIFA_RECURSO_NUEVO == 5000
TARIFA_RECURSO_MEDIO == 2500
TARIFA_RECURSO_ANTIGUO == 1000
DIAS_POR_ANIO == 365

TiposRecurso == {"LibroImpreso", "Revista", "RecursoDigital"}
ClasesDecorador ==
  {"DecoradorNotificacionSMS", "DecoradorReservaPreferencial", "DecoradorSeguroExtravio"}
Ninguna == "None"
Estrategias ==
  {"MultaEstudianteStrategy", "MultaDocenteStrategy",
   "MultaRecargadaStrategy", "MultaPorAntiguedadRecursoStrategy"}

\* Ages (in days) a resource is registered with: fecha_adquisicion = now - age.
\* One clock day later they are 365 and 1826, the two sides of both thresholds.
AntiguedadesDeAlta == {364, 1825}
AntiguedadesDePrueba == {0, 182, 364, 365, 1460, 1824, 1825, 1826, 2555}

VARIABLES
  reloj,              \* datetime.now(), in ticks
  recursos,           \* GestorDeInventario._recursos: the Recurso objects
  prestamos,          \* the heap of IPrestamo objects (base loans and decorators)
  devueltos,          \* history: base loans on which devolver_recurso() was called
  estrategia_pedida,  \* history: the last strategy handed to each base loan
  prestamos_activos,  \* InterfazBiblioteca.prestamos_activos: the chains the menus list
  contador_facturas,  \* GestorFacturacion.contador_facturas
  facturas_generadas, \* GestorFacturacion.facturas_generadas: the Factura objects
  op                  \* the last operation and its outcome

vars == <<reloj, recursos, prestamos, devueltos, estrategia_pedida, prestamos_activos,
          contador_facturas, facturas_generadas, op>>

\* ------------------------------------------------------------- conversions
\* timedelta(days = n)
timedelta_days(n) == n * TicksPorDia

\* timedelta.days: whole days, rounded towards minus infinity
dias_de(delta) == delta \div TicksPorDia

\* round(x, 2) on an amount in thousandths: to the nearest hundredth, ties to even
round2(x) ==
  LET q == x \div 10
      r == x % 10
  IN  IF r < 5 THEN q * 10
      ELSE IF r > 5 THEN (q + 1) * 10
      ELSE IF q % 2 = 0 THEN q * 10 ELSE (q + 1) * 10

Max(a, b) == IF a >= b THEN a ELSE b

\* ---------------------------------------------------------------- Recurso
obtener_duracion_prestamo_base(r) ==
  CASE recursos[r].tipo = "LibroImpreso" -> 14
    [] recursos[r].tipo = "Revista" -> 7
    [] recursos[r].tipo = "RecursoDigital" -> 30

calcular_antiguedad_dias(r) == dias_de(reloj - recursos[r].fecha_adquisicion)

cambiar_disponibilidad(r, disponible) ==
  [recursos EXCEPT ![r].disponible = disponible]

\* --------------------------------------------------- loans and decorators
EsBase(p) == prestamos[p].clase = "PrestamoBase"
Bases == {p \in DOMAIN prestamos : EsBase(p)}
Decoradores == {p \in DOMAIN prestamos : ~EsBase(p)}

\* the reservation's extra days granted only when it wraps the base loan itself
RECURSIVE obtener_duracion_dias_reserva_interior(_)
obtener_duracion_dias_reserva_interior(p) ==
  IF EsBase(p)
    THEN obtener_duracion_prestamo_base(prestamos[p].recurso)
    ELSE IF prestamos[p].clase = "DecoradorReservaPreferencial"
            /\ EsBase(prestamos[p].prestamo_envuelto)
      THEN obtener_duracion_dias_reserva_interior(prestamos[p].prestamo_envuelto)
           + DIAS_ADICIONALES
      ELSE obtener_duracion_dias_reserva_interior(prestamos[p].prestamo_envuelto)

RECURSIVE obtener_duracion_dias(_)
obtener_duracion_dias(p) ==
  IF EsBase(p)
    THEN obtener_duracion_prestamo_base(prestamos[p].recurso)
    ELSE IF prestamos[p].clase = "DecoradorReservaPreferencial"
      THEN obtener_duracion_dias(prestamos[p].prestamo_envuelto) + DIAS_ADICIONALES
      ELSE obtener_duracion_dias(prestamos[p].prestamo_envuelto)

\* the insurance charged at the reservation's price
costo_del_servicio_copiado(clase) ==
  CASE clase = "DecoradorNotificacionSMS" -> COSTO_SERVICIO_SMS
    [] clase = "DecoradorReservaPreferencial" -> COSTO_RESERVA_PREFERENCIAL
    [] clase = "DecoradorSeguroExtravio" -> COSTO_RESERVA_PREFERENCIAL

costo_del_servicio(clase) ==
  CASE clase = "DecoradorNotificacionSMS" -> COSTO_SERVICIO_SMS
    [] clase = "DecoradorReservaPreferencial" -> COSTO_RESERVA_PREFERENCIAL
    [] clase = "DecoradorSeguroExtravio" -> COSTO_SEGURO

RECURSIVE obtener_costo_base(_)
obtener_costo_base(p) ==
  IF EsBase(p)
    THEN prestamos[p].costo_base
    ELSE obtener_costo_base(prestamos[p].prestamo_envuelto)
         + costo_del_servicio(prestamos[p].clase)

\* the fragment each decorator's obtener_descripcion adds after " + "
fragmento_de_descripcion(clase) ==
  CASE clase = "DecoradorNotificacionSMS" -> "Notificacion SMS"
    [] clase = "DecoradorReservaPreferencial" -> "Reserva Preferencial"
    [] clase = "DecoradorSeguroExtravio" -> "Seguro contra Extravio"

\* each decorator's fragment written in front of the description it wraps
RECURSIVE obtener_descripcion_fragmento_delante(_)
obtener_descripcion_fragmento_delante(p) ==
  IF EsBase(p)
    THEN <<"Prestamo de", recursos[prestamos[p].recurso].titulo>>
    ELSE <<fragmento_de_descripcion(prestamos[p].clase)>>
         \o obtener_descripcion_fragmento_delante(prestamos[p].prestamo_envuelto)

\* obtener_descripcion: the text as the sequence of the pieces joined by " + "
RECURSIVE obtener_descripcion(_)
obtener_descripcion(p) ==
  IF EsBase(p)
    THEN <<"Prestamo de", recursos[prestamos[p].recurso].titulo>>
    ELSE obtener_descripcion(prestamos[p].prestamo_envuelto)
         \o <<fragmento_de_descripcion(prestamos[p].clase)>>

\* PrestamoBase.obtener_fecha_devolucion, with self the base loan
fecha_devolucion_base(b) ==
  prestamos[b].fecha_prestamo + timedelta_days(obtener_duracion_dias(b))

RECURSIVE obtener_fecha_devolucion(_)
obtener_fecha_devolucion(p) ==
  IF EsBase(p)
    THEN fecha_devolucion_base(p)
    ELSE obtener_fecha_devolucion(prestamos[p].prestamo_envuelto)

\* while hasattr(prestamo_base, 'prestamo_envuelto'): prestamo_base = ...
RECURSIVE prestamo_base_de(_)
prestamo_base_de(p) ==
  IF EsBase(p) THEN p ELSE prestamo_base_de(prestamos[p].prestamo_envuelto)

\* a returned loan no longer counted as late
calcular_dias_retraso_solo_prestados(b) ==
  LET fecha_devolucion == obtener_fecha_devolucion(b)
  IN  IF reloj > fecha_devolucion /\ ~recursos[prestamos[b].recurso].disponible
        THEN dias_de(reloj - fecha_devolucion) ELSE 0

calcular_dias_retraso(b) ==
  LET fecha_devolucion == obtener_fecha_devolucion(b)
  IN  IF reloj > fecha_devolucion THEN dias_de(reloj - fecha_devolucion) ELSE 0

\* -------------------------------------------------------- fine strategies
\* the early return on dias_retraso <= 0 left out: the minimum fine applies
MultaEstudiante_sin_retorno_temprano(dias_retraso, costo_base_recurso, r) ==
  LET multa == TARIFA_BASE_DIA_ESTUDIANTE * dias_retraso
      descontada ==
        IF calcular_antiguedad_dias(r) > ANTIGUEDAD_UMBRAL_DIAS
          THEN (multa * DESCUENTO_RECURSO_ANTIGUO_MILESIMAS) \div 1000
          ELSE multa
  IN  round2(Max(descontada, MULTA_MINIMA_ESTUDIANTE))

\* the discount given from the threshold on (>=) instead of past it (>)
MultaEstudiante_umbral_inclusivo(dias_retraso, costo_base_recurso, r) ==
  IF dias_retraso <= 0 THEN 0
  ELSE LET multa == TARIFA_BASE_DIA_ESTUDIANTE * dias_retraso
           descontada ==
             IF calcular_antiguedad_dias(r) >= ANTIGUEDAD_UMBRAL_DIAS
               THEN (multa * DESCUENTO_RECURSO_ANTIGUO_MILESIMAS) \div 1000
               ELSE multa
       IN  round2(Max(descontada, MULTA_MINIMA_ESTUDIANTE))

MultaEstudiante_calcular_multa(dias_retraso, costo_base_recurso, r) ==
  IF dias_retraso <= 0 THEN 0
  ELSE LET multa == TARIFA_BASE_DIA_ESTUDIANTE * dias_retraso
           descontada ==
             IF calcular_antiguedad_dias(r) > ANTIGUEDAD_UMBRAL_DIAS
               THEN (multa * DESCUENTO_RECURSO_ANTIGUO_MILESIMAS) \div 1000
               ELSE multa
       IN  round2(Max(descontada, MULTA_MINIMA_ESTUDIANTE))

\* the faculty charged at the student rate past the grace period
MultaDocente_tarifa_doble(dias_retraso, costo_base_recurso, r) ==
  IF dias_retraso <= 0 THEN 0
  ELSE LET dias_penalizables == Max(0, dias_retraso - DIAS_GRACIA)
       IN  IF dias_penalizables = 0 THEN 0
           ELSE round2(TARIFA_BASE_DIA_ESTUDIANTE * dias_penalizables)

\* a grace period one day shorter
MultaDocente_gracia_corta(dias_retraso, costo_base_recurso, r) ==
  IF dias_retraso <= 0 THEN 0
  ELSE LET dias_penalizables == Max(0, dias_retraso - (DIAS_GRACIA - 1))
       IN  IF dias_penalizables = 0 THEN 0
           ELSE round2(TARIFA_BASE_DIA_DOCENTE * dias_penalizables)

\* past the grace period every late day is charged, the first three included
MultaDocente_gracia_perdida(dias_retraso, costo_base_recurso, r) ==
  IF dias_retraso <= 0 THEN 0
  ELSE LET dias_penalizables == Max(0, dias_retraso - DIAS_GRACIA)
       IN  IF dias_penalizables = 0 THEN 0
           ELSE round2(TARIFA_BASE_DIA_DOCENTE * dias_retraso)

MultaDocente_calcular_multa(dias_retraso, costo_base_recurso, r) ==
  IF dias_retraso <= 0 THEN 0
  ELSE LET dias_penalizables == Max(0, dias_retraso - DIAS_GRACIA)
       IN  IF dias_penalizables = 0 THEN 0
           ELSE round2(TARIFA_BASE_DIA_DOCENTE * dias_penalizables)

\* for dia in range(1, dias_retraso + 1): multa += TARIFA_INICIAL + INCREMENTO * (dia - 1)
RECURSIVE acumular_recargo(_)
acumular_recargo(dia) ==
  IF dia <= 0 THEN 0
  ELSE acumular_recargo(dia - 1) + TARIFA_INICIAL + INCREMENTO_DIARIO * (dia - 1)

\* the surcharge counted from the first day: day d at 3.00 + 0.50 * d
MultaRecargada_recargo_adelantado(dias_retraso, costo_base_recurso, r) ==
  IF dias_retraso <= 0 THEN 0
  ELSE round2(acumular_recargo(dias_retraso) + INCREMENTO_DIARIO * dias_retraso)

MultaRecargada_calcular_multa(dias_retraso, costo_base_recurso, r) ==
  IF dias_retraso <= 0 THEN 0
  ELSE round2(acumular_recargo(dias_retraso))

MultaPorAntiguedad_calcular_multa(dias_retraso, costo_base_recurso, r) ==
  IF dias_retraso <= 0 THEN 0
  ELSE LET antiguedad_dias == calcular_antiguedad_dias(r)
           tarifa ==
             IF antiguedad_dias < 1 * DIAS_POR_ANIO THEN TARIFA_RECURSO_NUEVO
             ELSE IF antiguedad_dias < 5 * DIAS_POR_ANIO THEN TARIFA_RECURSO_MEDIO
             ELSE TARIFA_RECURSO_ANTIGUO
       IN  round2(tarifa * dias_retraso)

\* dynamic dispatch of estrategia.calcular_multa(...)
estrategia_calcular_multa(estrategia, dias_retraso, costo_base_recurso, r) ==
  CASE estrategia = "MultaEstudianteStrategy" ->
         MultaEstudiante_calcular_multa(dias_retraso, costo_base_recurso, r)
    [] estrategia = "MultaDocenteStrategy" ->
         MultaDocente_calcular_multa(dias_retraso, costo_base_recurso, r)
    [] estrategia = "MultaRecargadaStrategy" ->
         MultaRecargada_calcular_multa(dias_retraso, costo_base_recurso, r)
    [] estrategia = "MultaPorAntiguedadRecursoStrategy" ->
         MultaPorAntiguedad_calcular_multa(dias_retraso, costo_base_recurso, r)

\* the lateness looked at before the strategy: no error while the loan is on time
calcular_multa_retraso_primero(b) ==
  IF calcular_dias_retraso(b) <= 0
    THEN [error |-> "", valor |-> 0]
    ELSE IF prestamos[b].estrategia = Ninguna
      THEN [error |-> "ValueError", valor |-> 0]
      ELSE [error |-> "",
            valor |-> estrategia_calcular_multa(
                        prestamos[b].estrategia, calcular_dias_retraso(b),
                        obtener_costo_base(b), prestamos[b].recurso)]

\* no fine once the resource is back on the shelf
calcular_multa_solo_prestados(b) ==
  IF prestamos[b].estrategia = Ninguna
    THEN [error |-> "ValueError", valor |-> 0]
    ELSE IF calcular_dias_retraso(b) <= 0 \/ recursos[prestamos[b].recurso].disponible
      THEN [error |-> "", valor |-> 0]
      ELSE [error |-> "",
            valor |-> estrategia_calcular_multa(
                        prestamos[b].estrategia, calcular_dias_retraso(b),
                        obtener_costo_base(b), prestamos[b].recurso)]

\* PrestamoBase.calcular_multa: [error, valor]
calcular_multa(b) ==
  IF prestamos[b].estrategia = Ninguna
    THEN [error |-> "ValueError", valor |-> 0]
    ELSE IF calcular_dias_retraso(b) <= 0
      THEN [error |-> "", valor |-> 0]
      ELSE [error |-> "",
            valor |-> estrategia_calcular_multa(
                        prestamos[b].estrategia, calcular_dias_retraso(b),
                        obtener_costo_base(b), prestamos[b].recurso)]

\* the strategy kept once one is bound
establecer_estrategia_multa_una_vez(b, estrategia) ==
  IF prestamos[b].estrategia = Ninguna
    THEN [prestamos EXCEPT ![b].estrategia = estrategia]
    ELSE prestamos

establecer_estrategia_multa(b, estrategia) ==
  [prestamos EXCEPT ![b].estrategia = estrategia]

\* the availability flag left as it is
devolver_recurso_sin_efecto(b) == recursos

\* PrestamoBase.devolver_recurso
devolver_recurso(b) == cambiar_disponibilidad(prestamos[b].recurso, TRUE)

\* the start date moved back by the days of lateness alone
simular_retraso_sin_duracion(b, dias) ==
  [prestamos EXCEPT ![b].fecha_prestamo = reloj - timedelta_days(dias)]

\* prestamo_base._fecha_prestamo = datetime.now() - timedelta(days = base + dias)
simular_retraso(b, dias) ==
  [prestamos EXCEPT ![b].fecha_prestamo =
     reloj - timedelta_days(obtener_duracion_prestamo_base(prestamos[b].recurso) + dias)]

\* ---------------------------------------------------------------- invoices
ItemFactura(tipo, valor_unitario) ==
  [tipo |-> tipo, cantidad |-> 1, valor_unitario |-> valor_unitario]

\* the services listed from the base loan outwards
RECURSIVE items_de_servicios_desde_dentro(_)
items_de_servicios_desde_dentro(p) ==
  IF EsBase(p) THEN <<>>
  ELSE items_de_servicios_desde_dentro(prestamos[p].prestamo_envuelto)
       \o <<ItemFactura("SERVICIO", costo_del_servicio(prestamos[p].clase))>>

\* the while loop of Factura._generar_items, from prestamo_actual inwards
RECURSIVE items_de_servicios(_)
items_de_servicios(p) ==
  IF EsBase(p) THEN <<>>
  ELSE <<ItemFactura("SERVICIO", costo_del_servicio(prestamos[p].clase))>>
       \o items_de_servicios(prestamos[p].prestamo_envuelto)

generar_items(p, b) ==
  (IF obtener_costo_base(b) > 0
     THEN <<ItemFactura("RECURSO", obtener_costo_base(b))>>
     ELSE <<>>)
  \o items_de_servicios(p)

\* every invoice given the first number
nueva_factura_numero_fijo(numero, p, b) ==
  [numero |-> 1, prestamo |-> p, prestamo_base |-> b, items |-> generar_items(p, b)]

\* Factura.__init__
nueva_factura(numero, p, b) ==
  [numero |-> numero, prestamo |-> p, prestamo_base |-> b, items |-> generar_items(p, b)]

\* a fine line appended whether the loan is late or not
agregar_multa_siempre(factura) ==
  LET b == factura.prestamo_base
  IN  IF calcular_multa(b).error # ""
        THEN [error |-> calcular_multa(b).error, valor |-> 0, factura |-> factura]
        ELSE [error |-> "", valor |-> calcular_multa(b).valor,
              factura |-> [factura EXCEPT !.items =
                             Append(@, ItemFactura("MULTA", calcular_multa(b).valor))]]

\* Factura.agregar_multa on a Factura object: [error, valor, factura]
agregar_multa(factura) ==
  LET b == factura.prestamo_base
  IN  IF calcular_dias_retraso(b) > 0
        THEN IF calcular_multa(b).error # ""
          THEN [error |-> calcular_multa(b).error, valor |-> 0, factura |-> factura]
          ELSE [error |-> "", valor |-> calcular_multa(b).valor,
                factura |-> [factura EXCEPT !.items =
                               Append(@, ItemFactura("MULTA", calcular_multa(b).valor))]]
        ELSE [error |-> "", valor |-> 0, factura |-> factura]

RECURSIVE sumar_subtotales(_)
sumar_subtotales(items) ==
  IF items = <<>> THEN 0
  ELSE Head(items).cantidad * Head(items).valor_unitario + sumar_subtotales(Tail(items))

calcular_subtotal(factura) == sumar_subtotales(factura.items)

\* porcentaje in thousandths
calcular_iva(factura, porcentaje) == (calcular_subtotal(factura) * porcentaje) \div 1000

calcular_total(factura, porcentaje_iva) ==
  calcular_subtotal(factura) + calcular_iva(factura, porcentaje_iva)

Multas(factura) == {i \in DOMAIN factura.items : factura.items[i].tipo = "MULTA"}

\* ------------------------------------------------------------ operations
\* objects created so far (an invoice is numbered even when its creation fails)
Objetos == Len(recursos) + Len(prestamos) + (contador_facturas - 1)

Init ==
  /\ reloj = 0
  /\ recursos = <<>>
  /\ prestamos = <<>>
  /\ devueltos = {}
  /\ estrategia_pedida = <<>>
  /\ prestamos_activos = <<>>
  /\ contador_facturas = 1
  /\ facturas_generadas = <<>>
  /\ op = [kind |-> "inicio"]

\* kwargs.get(campo, defecto): the keyword arguments are a record of the fields given
kwargs_get(kwargs, campo, defecto) ==
  IF campo \in DOMAIN kwargs THEN kwargs[campo] ELSE defecto

\* the keyword arguments of a call that gives every field
carga_completa(isbn, fecha_adquisicion) ==
  [titulo |-> "Refactoring", isbn |-> isbn, fecha_adquisicion |-> fecha_adquisicion]

\* FabricaDeRecursos.crear_recurso + Recurso.__init__
crear_recurso(tipo, kwargs) ==
  [tipo |-> tipo,
   titulo |-> kwargs_get(kwargs, "titulo", Ninguna),
   isbn |-> kwargs_get(kwargs, "isbn", Ninguna),
   fecha_adquisicion |-> kwargs_get(kwargs, "fecha_adquisicion", reloj),
   disponible |-> TRUE]

\* GestorDeInventario.agregar_recurso_con_fabrica
AgregarRecurso(tipo, kwargs) ==
  /\ recursos' = Append(recursos, crear_recurso(tipo, kwargs))
  /\ op' = [kind |-> "agregar_recurso", recurso |-> Len(recursos) + 1,
            kwargs |-> kwargs, error |-> ""]
  /\ UNCHANGED <<prestamos_activos, reloj, prestamos, devueltos, estrategia_pedida,
                 contador_facturas, facturas_generadas>>

\* PrestamoBase.__init__: the new object
nuevo_prestamo_base(r, estrategia) ==
  [clase |-> "PrestamoBase", recurso |-> r, fecha_prestamo |-> reloj,
   estrategia |-> estrategia, costo_base |-> 0]

\* PrestamoBase.__init__: its effect on the resource
marcar_prestado(r) == cambiar_disponibilidad(r, FALSE)

CrearPrestamo(r, estrategia) ==
  /\ prestamos' = Append(prestamos, nuevo_prestamo_base(r, estrategia))
  /\ recursos' = marcar_prestado(r)
  /\ estrategia_pedida' = Append(estrategia_pedida, estrategia)
  /\ op' = [kind |-> "PrestamoBase", prestamo |-> Len(prestamos) + 1, recurso |-> r]
  /\ UNCHANGED <<prestamos_activos, reloj, devueltos, contador_facturas, facturas_generadas>>

\* DecoradorPrestamo.__init__ (through a concrete decorator's __init__)
nuevo_decorador(clase, p) == [clase |-> clase, prestamo_envuelto |-> p]

\* a decorator that also charges its service to the base loan it is built on
Decorar_con_cargo_al_prestamo_base(clase, p) ==
  /\ prestamos' = Append([prestamos EXCEPT ![prestamo_base_de(p)].costo_base =
                            @ + costo_del_servicio(clase)],
                         nuevo_decorador(clase, p))
  /\ estrategia_pedida' = Append(estrategia_pedida, Ninguna)
  /\ op' = [kind |-> "decorar", prestamo |-> Len(prestamos) + 1]
  /\ UNCHANGED <<prestamos_activos, reloj, recursos, devueltos,
                 contador_facturas, facturas_generadas>>

Decorar(clase, p) ==
  /\ prestamos' = Append(prestamos, nuevo_decorador(clase, p))
  /\ estrategia_pedida' = Append(estrategia_pedida, Ninguna)
  /\ op' = [kind |-> "decorar", prestamo |-> Len(prestamos) + 1]
  /\ UNCHANGED <<prestamos_activos, reloj, recursos, devueltos,
                 contador_facturas, facturas_generadas>>

EstablecerEstrategia(b, estrategia) ==
  /\ prestamos' = establecer_estrategia_multa(b, estrategia)
  /\ estrategia_pedida' = [estrategia_pedida EXCEPT ![b] = estrategia]
  /\ op' = [kind |-> "establecer_estrategia_multa", prestamo |-> b]
  /\ UNCHANGED <<prestamos_activos, reloj, recursos, devueltos,
                 contador_facturas, facturas_generadas>>

SimularRetraso(b, dias) ==
  /\ prestamos' = simular_retraso(b, dias)
  /\ op' = [kind |-> "simular_retraso", prestamo |-> b, dias |-> dias]
  /\ UNCHANGED <<prestamos_activos, reloj, recursos, devueltos, estrategia_pedida,
                 contador_facturas, facturas_generadas>>

\* what was done to the loan right before: another calcular_multa(), a change of
\* strategy, or anything else
operacion_anterior(b) ==
  IF op.kind \in {"calcular_multa", "establecer_estrategia_multa"} /\ op.prestamo = b
    THEN op.kind ELSE "otra"

CalcularMulta(b) ==
  /\ op' = [kind |-> "calcular_multa", prestamo |-> b,
            error |-> calcular_multa(b).error, valor |-> calcular_multa(b).valor,
            costo_base_recurso |-> obtener_costo_base(b),
            anterior |-> operacion_anterior(b)]
  /\ UNCHANGED <<prestamos_activos, reloj, recursos, prestamos, devueltos, estrategia_pedida,
                 contador_facturas, facturas_generadas>>

DevolverRecurso(b) ==
  /\ recursos' = devolver_recurso(b)
  /\ devueltos' = devueltos \cup {b}
  /\ op' = [kind |-> "devolver_recurso", prestamo |-> b]
  /\ UNCHANGED <<prestamos_activos, reloj, prestamos, estrategia_pedida,
                 contador_facturas, facturas_generadas>>

\* a strategy object called directly
EvaluarEstrategia(estrategia, dias_retraso, costo_base_recurso, r) ==
  /\ op' = [kind |-> "estrategia.calcular_multa", estrategia |-> estrategia,
            dias_retraso |-> dias_retraso, costo |-> costo_base_recurso, recurso |-> r,
            valor |-> estrategia_calcular_multa(estrategia, dias_retraso,
                                                costo_base_recurso, r)]
  /\ UNCHANGED <<prestamos_activos, reloj, recursos, prestamos, devueltos, estrategia_pedida,
                 contador_facturas, facturas_generadas>>

\* GestorFacturacion.crear_factura
CrearFactura(p, b, incluir_multa) ==
  LET numero == contador_facturas
      factura == nueva_factura(numero, p, b)
      res == IF incluir_multa THEN agregar_multa(factura)
             ELSE [error |-> "", valor |-> 0, factura |-> factura]
  IN  /\ contador_facturas' = contador_facturas + 1
      /\ facturas_generadas' =
           IF res.error = "" THEN Append(facturas_generadas, res.factura)
           ELSE facturas_generadas
      /\ op' = [kind |-> "crear_factura", prestamo |-> p, error |-> res.error]
      /\ UNCHANGED <<prestamos_activos, reloj, recursos, prestamos,
                     devueltos, estrategia_pedida>>

\* Factura.agregar_multa on a recorded invoice
AgregarMulta(f) ==
  LET res == agregar_multa(facturas_generadas[f])
  IN  /\ facturas_generadas' = [facturas_generadas EXCEPT ![f] = res.factura]
      /\ op' = [kind |-> "agregar_multa", factura |-> f,
                error |-> res.error, valor |-> res.valor]
      /\ UNCHANGED <<prestamos_activos, reloj, recursos, prestamos,
                     devueltos, estrategia_pedida,
                     contador_facturas>>

\* Factura.generar_factura_texto: its effect on the invoice (the text is not modelled)
GenerarFacturaTexto(f, incluir_multa) ==
  LET res == IF incluir_multa THEN agregar_multa(facturas_generadas[f])
             ELSE [error |-> "", valor |-> 0, factura |-> facturas_generadas[f]]
  IN  /\ facturas_generadas' = [facturas_generadas EXCEPT ![f] = res.factura]
      /\ op' = [kind |-> "generar_factura_texto", factura |-> f, error |-> res.error]
      /\ UNCHANGED <<prestamos_activos, reloj, recursos, prestamos,
                     devueltos, estrategia_pedida,
                     contador_facturas>>

\* the wall clock advances
PasarTiempo ==
  /\ reloj' = reloj + 1
  /\ op' = [kind |-> "pasar_tiempo"]
  /\ UNCHANGED <<prestamos_activos, recursos, prestamos, devueltos, estrategia_pedida,
                 contador_facturas, facturas_generadas>>

\* ------------------------------------------------- the session: everything
\* The session is taken at one instant: a loan is late only by back-dating, as in
\* the demonstrations.  Its inputs are one resource type, one age, two strategies.
TiposSesion == {"LibroImpreso"}
AntiguedadesSesion == {364}
EstrategiasSesion == {Ninguna, "MultaEstudianteStrategy"}
DiasSesion == {1}
IsbnSesion == "978-0134757599"

Next ==
  \/ \E tipo \in TiposSesion, a \in AntiguedadesSesion :
       /\ Objetos < MaxObjetos
       /\ AgregarRecurso(tipo, carga_completa(IsbnSesion, reloj - timedelta_days(a)))
  \/ \E r \in DOMAIN recursos, e \in EstrategiasSesion :
       Objetos < MaxObjetos /\ CrearPrestamo(r, e)
  \/ \E clase \in ClasesDecorador, p \in DOMAIN prestamos :
       Objetos < MaxObjetos /\ Decorar(clase, p)
  \/ \E b \in Bases, e \in EstrategiasSesion : EstablecerEstrategia(b, e)
  \/ \E b \in Bases, d \in DiasSesion : SimularRetraso(b, d)
  \/ \E b \in Bases : CalcularMulta(b)
  \/ \E b \in Bases : DevolverRecurso(b)
  \/ \E p \in DOMAIN prestamos, incluir_multa \in BOOLEAN :
       Objetos < MaxObjetos /\ CrearFactura(p, prestamo_base_de(p), incluir_multa)
  \/ \E f \in DOMAIN facturas_generadas :
       Cardinality(Multas(facturas_generadas[f])) < MaxMultasPorFactura /\ AgregarMulta(f)
  \/ \E f \in DOMAIN facturas_generadas, incluir_multa \in BOOLEAN :
       /\ Cardinality(Multas(facturas_generadas[f])) < MaxMultasPorFactura
       /\ GenerarFacturaTexto(f, incluir_multa)

Spec == Init /\ [][Next]_vars

\* --------------------------------------------- a chain of decorators alone
\* The state right after PrestamoBase(recurso, usuario, estrategia) on a new resource.
ConUnPrestamo(tipo, antiguedad, estrategia) ==
  /\ reloj = 0
  /\ recursos = <<[crear_recurso(tipo, carga_completa(IsbnSesion,
                                                      0 - timedelta_days(antiguedad)))
                    EXCEPT !.disponible = FALSE]>>
  /\ prestamos = <<[clase |-> "PrestamoBase", recurso |-> 1, fecha_prestamo |-> 0,
                    estrategia |-> estrategia, costo_base |-> 0]>>
  /\ devueltos = {}
  /\ estrategia_pedida = <<estrategia>>
  /\ prestamos_activos = <<>>
  /\ contador_facturas = 1
  /\ facturas_generadas = <<>>
  /\ op = [kind |-> "PrestamoBase", prestamo |-> 1, recurso |-> 1]

InitCadena ==
  \E tipo \in TiposRecurso : ConUnPrestamo(tipo, 364, "MultaEstudianteStrategy")

NextCadena ==
  \/ \E clase \in ClasesDecorador, p \in DOMAIN prestamos :
       Cardinality(Decoradores) < MaxDecoradores /\ Decorar(clase, p)
  \/ \E b \in Bases, d \in 1..MaxDiasSimulados : SimularRetraso(b, d)

SpecCadena == InitCadena /\ [][NextCadena]_vars

\* the decorators alone, built around any node, for what a chain reports of itself
NextDescripcion ==
  \E clase \in ClasesDecorador, p \in DOMAIN prestamos :
    Cardinality(Decoradores) < MaxDecoradores /\ Decorar(clase, p)

SpecDescripcion == InitCadena /\ [][NextDescripcion]_vars

\* ------------------------------------------------- one loan and its fines
InitMulta ==
  \E tipo \in TiposRecurso, a \in AntiguedadesDeAlta, e \in Estrategias \cup {Ninguna} :
    ConUnPrestamo(tipo, a, e)

CostosDePrueba == {0, COSTO_SERVICIO_SMS}

NextMulta ==
  \/ \E b \in Bases, e \in Estrategias \cup {Ninguna} : EstablecerEstrategia(b, e)
  \/ \E b \in Bases, d \in 1..MaxDiasSimulados : SimularRetraso(b, d)
  \/ \E b \in Bases : CalcularMulta(b)
  \/ \E b \in Bases : DevolverRecurso(b)
  \/ \E e \in Estrategias, d \in (0 - MaxDiasDirectos)..MaxDiasDirectos,
        c \in CostosDePrueba, r \in DOMAIN recursos : EvaluarEstrategia(e, d, c, r)
  \/ reloj < MaxReloj /\ PasarTiempo

SpecMulta == InitMulta /\ [][NextMulta]_vars

\* -------------------------------------------- the strategies called directly
InitEstrategia ==
  /\ reloj = 0
  /\ \E tipo \in TiposRecurso, a \in AntiguedadesDePrueba :
       recursos = <<crear_recurso(tipo, carga_completa(IsbnSesion,
                                                      0 - timedelta_days(a)))>>
  /\ prestamos = <<>>
  /\ devueltos = {}
  /\ estrategia_pedida = <<>>
  /\ prestamos_activos = <<>>
  /\ contador_facturas = 1
  /\ facturas_generadas = <<>>
  /\ op = [kind |-> "inicio"]

NextEstrategia ==
  \/ \E e \in Estrategias, d \in (0 - 2)..MaxDiasRetraso,
        c \in CostosDePrueba, r \in DOMAIN recursos : EvaluarEstrategia(e, d, c, r)
  \/ reloj < MaxReloj /\ PasarTiempo

SpecEstrategia == InitEstrategia /\ [][NextEstrategia]_vars

\* ------------------------------------------- one loan, its chain, its invoices
\* GestorFacturacion.obtener_total_facturado: sum(f.calcular_total() ...)
RECURSIVE sumar_totales(_)
sumar_totales(facturas) ==
  IF facturas = <<>> THEN 0
  ELSE calcular_total(Head(facturas), 0) + sumar_totales(Tail(facturas))

obtener_total_facturado == sumar_totales(facturas_generadas)

obtener_cantidad_facturas == Len(facturas_generadas)

\* Factura.calcular_subtotal, calcular_iva and calcular_total read on a recorded invoice
LeerTotales(f, porcentaje_iva) ==
  /\ op' = [kind |-> "calcular_total", factura |-> f,
            subtotal |-> calcular_subtotal(facturas_generadas[f]),
            iva |-> calcular_iva(facturas_generadas[f], porcentaje_iva),
            total |-> calcular_total(facturas_generadas[f], porcentaje_iva)]
  /\ UNCHANGED <<prestamos_activos, reloj, recursos, prestamos, devueltos, estrategia_pedida,
                 contador_facturas, facturas_generadas>>

RECURSIVE contar_multas(_)
contar_multas(facturas) ==
  IF facturas = <<>> THEN 0
  ELSE Cardinality(Multas(Head(facturas))) + contar_multas(Tail(facturas))

\* decorators built, invoices numbered and fine items appended so far
ObjetosFactura ==
  Cardinality(Decoradores) + (contador_facturas - 1) + contar_multas(facturas_generadas)

EstrategiasFactura == {Ninguna, "MultaDocenteStrategy"}
DiasFactura == {10}
PorcentajesIva == {0, 190}

InitFactura ==
  \E e \in EstrategiasFactura : ConUnPrestamo("LibroImpreso", 364, e)

\* the decorators are stacked as the session does: each wraps the outermost node
NextFactura ==
  \/ \E clase \in ClasesDecorador :
       ObjetosFactura < MaxObjetosFactura /\ Decorar(clase, Len(prestamos))
  \/ \E b \in Bases, e \in EstrategiasFactura : EstablecerEstrategia(b, e)
  \/ \E b \in Bases, d \in DiasFactura : SimularRetraso(b, d)
  \/ \E p \in DOMAIN prestamos, incluir_multa \in BOOLEAN :
       ObjetosFactura < MaxObjetosFactura /\ CrearFactura(p, prestamo_base_de(p), incluir_multa)
  \/ \E f \in DOMAIN facturas_generadas :
       ObjetosFactura < MaxObjetosFactura /\ AgregarMulta(f)
  \/ \E f \in DOMAIN facturas_generadas, incluir_multa \in BOOLEAN :
       ObjetosFactura < MaxObjetosFactura /\ GenerarFacturaTexto(f, incluir_multa)
  \/ \E f \in DOMAIN facturas_generadas, porcentaje_iva \in PorcentajesIva :
       LeerTotales(f, porcentaje_iva)

SpecFactura == InitFactura /\ [][NextFactura]_vars

\* ------------------------------------------------------------ the inventory
\* GestorDeInventario.obtener_recurso_por_isbn: the first match, 0 for None
RECURSIVE buscar_desde(_, _)
buscar_desde(i, isbn) ==
  IF i > Len(recursos) THEN 0
  ELSE IF recursos[i].isbn = isbn THEN i
  ELSE buscar_desde(i + 1, isbn)

obtener_recurso_por_isbn(isbn) == buscar_desde(1, isbn)

ObtenerRecursoPorIsbn(isbn) ==
  /\ op' = [kind |-> "obtener_recurso_por_isbn", isbn |-> isbn,
            recurso |-> obtener_recurso_por_isbn(isbn)]
  /\ UNCHANGED <<prestamos_activos, reloj, recursos, prestamos, devueltos, estrategia_pedida,
                 contador_facturas, facturas_generadas>>

TiposInventario == {"LibroImpreso", "RecursoDigital"}
IsbnsDePrueba == {"978-0134757599", "978-0132350884"}
FechaDePrueba == 0 - timedelta_days(364)

\* keyword arguments: every field given, or one of them left out
CargasDePrueba ==
  {carga_completa(isbn, FechaDePrueba) : isbn \in IsbnsDePrueba}
  \cup {[isbn |-> isbn, fecha_adquisicion |-> FechaDePrueba] : isbn \in IsbnsDePrueba}
  \cup {[titulo |-> "Refactoring", fecha_adquisicion |-> FechaDePrueba]}
  \cup {[titulo |-> "Refactoring", isbn |-> isbn] : isbn \in IsbnsDePrueba}

NextInventario ==
  \/ \E tipo \in TiposInventario, kwargs \in CargasDePrueba :
       Len(recursos) < MaxRecursos /\ AgregarRecurso(tipo, kwargs)
  \/ \E isbn \in IsbnsDePrueba : ObtenerRecursoPorIsbn(isbn)

SpecInventario == Init /\ [][NextInventario]_vars

\* ------------------------------- one late loan of each strategy, invoiced
\* invoices numbered and fine items appended so far
LineasFacturadas == (contador_facturas - 1) + contar_multas(facturas_generadas)

InitMultaFacturada ==
  \E a \in AntiguedadesDeAlta, e \in Estrategias : ConUnPrestamo("LibroImpreso", a, e)

NextMultaFacturada ==
  \/ \E b \in Bases, d \in 1..MaxDiasFacturados : SimularRetraso(b, d)
  \/ \E b \in Bases, incluir_multa \in BOOLEAN :
       LineasFacturadas < MaxLineasFacturadas /\ CrearFactura(b, b, incluir_multa)
  \/ \E f \in DOMAIN facturas_generadas :
       LineasFacturadas < MaxLineasFacturadas /\ AgregarMulta(f)

SpecMultaFacturada == InitMultaFacturada /\ [][NextMultaFacturada]_vars

\* ------------------------------------------ the menus of InterfazBiblioteca
\* the decorators crear_prestamo offers, in the order it asks for them
OrdenDeServicios ==
  <<"DecoradorNotificacionSMS", "DecoradorReservaPreferencial", "DecoradorSeguroExtravio">>

EsElegido(servicios, clase) == clase \in servicios

\* prestamo = Decorador...(prestamo, ...) for each service answered "s"
RECURSIVE decorar_en_orden(_, _)
decorar_en_orden(nodos, clases) ==
  IF clases = <<>> THEN nodos
  ELSE decorar_en_orden(Append(nodos, nuevo_decorador(Head(clases), Len(nodos))),
                        Tail(clases))

sin_estrategias(n) == [i \in 1..n |-> Ninguna]

\* self.prestamos_activos.pop(idx)
pop(lista, idx) == [i \in 1..(Len(lista) - 1) |-> IF i < idx THEN lista[i] ELSE lista[i + 1]]

\* InterfazBiblioteca.crear_prestamo on one of the resources listed as available
MenuCrearPrestamo(r, estrategia, servicios) ==
  LET clases == SelectSeq(OrdenDeServicios, LAMBDA clase : EsElegido(servicios, clase))
  IN  /\ recursos[r].disponible
      /\ prestamos' = decorar_en_orden(Append(prestamos, nuevo_prestamo_base(r, estrategia)),
                                       clases)
      /\ recursos' = marcar_prestado(r)
      /\ estrategia_pedida' =
           Append(estrategia_pedida, estrategia) \o sin_estrategias(Len(clases))
      /\ prestamos_activos' = Append(prestamos_activos, Len(prestamos) + 1 + Len(clases))
      /\ op' = [kind |-> "menu.crear_prestamo", recurso |-> r,
                prestamo |-> Len(prestamos) + 1 + Len(clases)]
      /\ UNCHANGED <<reloj, devueltos, contador_facturas, facturas_generadas>>

\* InterfazBiblioteca.devolver_recurso on the entry idx of the list shown
MenuDevolverRecurso(idx) ==
  LET b == prestamo_base_de(prestamos_activos[idx])
      falla == calcular_dias_retraso(b) > 0 /\ calcular_multa(b).error # ""
  IN  /\ idx \in DOMAIN prestamos_activos
      /\ recursos' = IF falla THEN recursos ELSE devolver_recurso(b)
      /\ devueltos' = IF falla THEN devueltos ELSE devueltos \cup {b}
      /\ prestamos_activos' = IF falla THEN prestamos_activos ELSE pop(prestamos_activos, idx)
      /\ op' = [kind |-> "menu.devolver_recurso", prestamo |-> b,
                error |-> IF falla THEN calcular_multa(b).error ELSE ""]
      /\ UNCHANGED <<reloj, prestamos, estrategia_pedida, contador_facturas,
                     facturas_generadas>>

\* InterfazBiblioteca.generar_factura on the entry idx; dias = 0: no lateness simulated
MenuGenerarFactura(idx, incluir_multa, dias) ==
  \E p \in {prestamos_activos[idx]}, numero \in {contador_facturas} :
    LET b == prestamo_base_de(p)
    IN  /\ idx \in DOMAIN prestamos_activos
        /\ prestamos' = IF incluir_multa /\ dias > 0 THEN simular_retraso(b, dias)
                        ELSE prestamos
        /\ UNCHANGED <<reloj, recursos, devueltos, estrategia_pedida, prestamos_activos>>
        /\ contador_facturas' = contador_facturas + 1
        /\ \E res \in {IF incluir_multa
                         THEN agregar_multa(nueva_factura(numero, p, prestamo_base_de(p)))'
                         ELSE [error |-> "", valor |-> 0,
                               factura |-> nueva_factura(numero, p, prestamo_base_de(p))']} :
             /\ facturas_generadas' =
                  IF res.error = "" THEN Append(facturas_generadas, res.factura)
                  ELSE facturas_generadas
             /\ op' = [kind |-> "menu.generar_factura", prestamo |-> p,
                       error |-> res.error]

\* InterfazBiblioteca.escenario_obligatorio: a book of four years, lent to a
\* student under a notification, eight days late, fined as student then as faculty
EscenarioObligatorio ==
  \E r \in {Len(recursos) + 1}, b \in {Len(prestamos) + 1}, dias_retraso \in {8} :
    /\ recursos' =
         Append(recursos,
                [crear_recurso("LibroImpreso",
                               [titulo |-> "Refactoring: Improving the Design of Existing Code",
                                isbn |-> "978-0134757599",
                                fecha_adquisicion |-> reloj - timedelta_days(365 * 4)])
                   EXCEPT !.disponible = FALSE])
    /\ prestamos' =
         prestamos
         \o <<[nuevo_prestamo_base(r, "MultaDocenteStrategy") EXCEPT !.fecha_prestamo =
                 reloj - timedelta_days(14 + dias_retraso)],
              nuevo_decorador("DecoradorNotificacionSMS", b)>>
    /\ estrategia_pedida' = estrategia_pedida \o <<"MultaDocenteStrategy", Ninguna>>
    /\ UNCHANGED <<reloj, devueltos, prestamos_activos, contador_facturas,
                   facturas_generadas>>
    /\ op' = [kind |-> "escenario_obligatorio", recurso |-> r, prestamo |-> b,
              multa1 |-> estrategia_calcular_multa("MultaEstudianteStrategy",
                                                   calcular_dias_retraso(b),
                                                   obtener_costo_base(b), r)',
              multa2 |-> estrategia_calcular_multa("MultaDocenteStrategy",
                                                   calcular_dias_retraso(b),
                                                   obtener_costo_base(b), r)']

\* InterfazBiblioteca.demo_automatica: a book of three years lent under a
\* notification and a reservation
DemoAutomatica ==
  \E r \in {Len(recursos) + 1}, b \in {Len(prestamos) + 1} :
    /\ recursos' =
         Append(recursos,
                [crear_recurso("LibroImpreso",
                               [titulo |-> "Clean Code", isbn |-> "978-0132350884",
                                fecha_adquisicion |-> reloj - timedelta_days(365 * 3)])
                   EXCEPT !.disponible = FALSE])
    /\ prestamos' =
         decorar_en_orden(Append(prestamos, nuevo_prestamo_base(r, "MultaEstudianteStrategy")),
                          <<"DecoradorNotificacionSMS", "DecoradorReservaPreferencial">>)
    /\ estrategia_pedida' =
         estrategia_pedida \o <<"MultaEstudianteStrategy", Ninguna, Ninguna>>
    /\ op' = [kind |-> "demo_automatica", recurso |-> r, prestamo |-> b + 2]
    /\ UNCHANGED <<reloj, devueltos, prestamos_activos, contador_facturas,
                   facturas_generadas>>

EstrategiasInterfaz == {"MultaEstudianteStrategy"}
ServiciosInterfaz == {{}, {"DecoradorNotificacionSMS", "DecoradorSeguroExtravio"}}
DiasInterfaz == {0, 10}

NextInterfaz ==
  \/ \E a \in AntiguedadesSesion :
       /\ Len(recursos) < MaxRecursosInterfaz
       /\ AgregarRecurso("LibroImpreso", carga_completa(IsbnSesion, reloj - timedelta_days(a)))
  \/ \E r \in DOMAIN recursos, e \in EstrategiasInterfaz, servicios \in ServiciosInterfaz :
       /\ Len(prestamos) + 1 + Cardinality(servicios) <= MaxNodosInterfaz
       /\ MenuCrearPrestamo(r, e, servicios)
  \/ \E idx \in DOMAIN prestamos_activos : MenuDevolverRecurso(idx)
  \/ \E idx \in DOMAIN prestamos_activos, incluir_multa \in BOOLEAN, dias \in DiasInterfaz :
       /\ contador_facturas - 1 < MaxFacturasInterfaz
       /\ MenuGenerarFactura(idx, incluir_multa, dias)
  \/ /\ Len(recursos) < MaxRecursosInterfaz
     /\ Len(prestamos) + 2 <= MaxNodosInterfaz
     /\ EscenarioObligatorio
  \/ /\ Len(recursos) < MaxRecursosInterfaz
     /\ Len(prestamos) + 3 <= MaxNodosInterfaz
     /\ DemoAutomatica

SpecInterfaz == Init /\ [][NextInterfaz]_vars

\* ================================================================= claims
DuracionBasePorTipo(tipo) ==
  CASE tipo = "LibroImpreso" -> 14
    [] tipo = "Revista" -> 7
    [] tipo = "RecursoDigital" -> 30

TipoDelRecursoDe(p) == recursos[prestamos[prestamo_base_de(p)].recurso].tipo

\* how many decorators of a class the chain under p holds
RECURSIVE VecesEnCadena(_, _)
VecesEnCadena(p, clase) ==
  IF EsBase(p) THEN 0
  ELSE (IF prestamos[p].clase = clase THEN 1 ELSE 0)
       + VecesEnCadena(prestamos[p].prestamo_envuelto, clase)

\* C1: for every chain, obtener_duracion_dias() of the outermost node is the
\* resource's base duration (14, 7 or 30 days) plus 7 days per preferential
\* reservation in the chain, and obtener_costo_base() is 5.00 per SMS
\* notification plus 10.00 per reservation plus 15.00 per insurance.
C1_DuracionYCostoDeLaCadena ==
  \A p \in DOMAIN prestamos :
    /\ obtener_duracion_dias(p) =
         DuracionBasePorTipo(TipoDelRecursoDe(p))
         + 7 * VecesEnCadena(p, "DecoradorReservaPreferencial")
    /\ obtener_costo_base(p) =
         5000 * VecesEnCadena(p, "DecoradorNotificacionSMS")
         + 10000 * VecesEnCadena(p, "DecoradorReservaPreferencial")
         + 15000 * VecesEnCadena(p, "DecoradorSeguroExtravio")

\* a chain holding the three services
C1_Testigo ==
  \E p \in DOMAIN prestamos :
    /\ VecesEnCadena(p, "DecoradorNotificacionSMS") >= 1
    /\ VecesEnCadena(p, "DecoradorReservaPreferencial") >= 1
    /\ VecesEnCadena(p, "DecoradorSeguroExtravio") >= 1

\* C2: for every chain, obtener_fecha_devolucion() of the outermost node is the
\* loan's start plus obtener_duracion_dias() of that same node, so k preferential
\* reservations move the due date 7k days past the bare loan's.
C2_FechaDevolucionDeLaCadena ==
  \A p \in DOMAIN prestamos :
    obtener_fecha_devolucion(p) =
      prestamos[prestamo_base_de(p)].fecha_prestamo
      + timedelta_days(obtener_duracion_dias(p))

\* C3: a resource is never referenced by more than one base loan that has not
\* been returned, and while it is on loan exactly one such loan references it.
PrestamosSinDevolver(r) ==
  {b \in Bases : prestamos[b].recurso = r /\ b \notin devueltos}

C3_UnSoloPrestamoSinDevolver ==
  \A r \in DOMAIN recursos :
    /\ Cardinality(PrestamosSinDevolver(r)) <= 1
    /\ ~recursos[r].disponible => Cardinality(PrestamosSinDevolver(r)) = 1

\* C4: constructing a base loan marks its resource as on loan in the same step,
\* devolver_recurso() marks it available again, and neither of them touches
\* another resource; decorating, changing the strategy, computing a fine,
\* back-dating, creating an invoice, adding its fine and rendering it change no
\* resource's availability.
OtrasDisponibilidadesIguales(r) ==
  \A q \in DOMAIN recursos : q # r => recursos'[q].disponible = recursos[q].disponible

C4_SoloPrestarYDevolverCambianDisponibilidad ==
  [][ /\ op'.kind = "PrestamoBase" =>
           /\ ~recursos'[op'.recurso].disponible
           /\ OtrasDisponibilidadesIguales(op'.recurso)
      /\ op'.kind = "devolver_recurso" =>
           /\ recursos'[prestamos[op'.prestamo].recurso].disponible
           /\ OtrasDisponibilidadesIguales(prestamos[op'.prestamo].recurso)
      /\ op'.kind \in {"decorar", "establecer_estrategia_multa", "simular_retraso",
                       "calcular_multa", "crear_factura", "agregar_multa",
                       "generar_factura_texto"} =>
           \A q \in DOMAIN recursos : recursos'[q].disponible = recursos[q].disponible
    ]_vars

\* a resource just returned, after its loan was decorated and invoiced
C4_Testigo ==
  /\ op.kind = "devolver_recurso"
  /\ recursos[prestamos[op.prestamo].recurso].disponible
  /\ Decoradores # {}
  /\ \E f \in DOMAIN facturas_generadas : Multas(facturas_generadas[f]) # {}

\* C5: calcular_multa() on a base loan with no strategy bound fails with the
\* configuration error whatever the lateness, also when the loan is on time, and
\* leaves the loans (start date, strategy) and the resources as they were.
C5_SinEstrategiaSiempreFalla ==
  [][ (op'.kind = "calcular_multa" /\ prestamos[op'.prestamo].estrategia = Ninguna) =>
        /\ op'.error = "ValueError"
        /\ UNCHANGED <<prestamos_activos, prestamos, recursos>>
    ]_vars

\* the error raised for a loan that is on time
C5_Testigo ==
  /\ op.kind = "calcular_multa"
  /\ op.error = "ValueError"
  /\ calcular_dias_retraso(op.prestamo) = 0

\* C6: calcular_multa() returns what the strategy last handed to the loan
\* computes for the loan's current days late and resource, whatever was bound
\* or computed before.
C6_LaUltimaEstrategiaDecide ==
  op.kind = "calcular_multa" =>
    LET b == op.prestamo
        e == estrategia_pedida[b]
    IN  IF e = Ninguna THEN op.error = "ValueError"
        ELSE /\ op.error = ""
             /\ op.valor = estrategia_calcular_multa(
                             e, calcular_dias_retraso(b), 0, prestamos[b].recurso)

\* a fine computed right after the strategy was changed
C6_Testigo ==
  /\ op.kind = "calcular_multa"
  /\ op.anterior = "establecer_estrategia_multa"
  /\ op.valor > 0

\* C7 as stated: with the start date and the strategy of a loan left alone,
\* calcular_multa() returns the same value at any two calls.  calcular_multa()
\* is a read, so this says that no step that leaves both alone changes its value.
MismoPrestamo(b) ==
  /\ prestamos'[b].fecha_prestamo = prestamos[b].fecha_prestamo
  /\ prestamos'[b].estrategia = prestamos[b].estrategia

C7_MultaRepetidaIgual ==
  [][ \A b \in Bases : MismoPrestamo(b) => calcular_multa(b)' = calcular_multa(b) ]_vars

\* C7 amended: ... and with the clock not having moved the loan to another whole
\* day of lateness nor the resource to another whole day of age.
C7_MultaRepetidaIgualEnElMismoDia ==
  [][ \A b \in Bases :
        ( /\ MismoPrestamo(b)
          /\ calcular_dias_retraso(b)' = calcular_dias_retraso(b)
          /\ calcular_antiguedad_dias(prestamos[b].recurso)'
               = calcular_antiguedad_dias(prestamos[b].recurso) )
        => calcular_multa(b)' = calcular_multa(b) ]_vars

\* a fine computed twice in a row
C7_Testigo ==
  /\ op.kind = "calcular_multa"
  /\ op.anterior = "calcular_multa"
  /\ op.valor > 0

\* C8: each of the four strategies returns 0.0 for every dias_retraso <= 0,
\* whatever the resource and the cost, and calcular_multa() of a base loan with
\* a strategy bound returns 0.0 while the loan is less than a whole day past due.
MenosDeUnDiaVencido(b) ==
  reloj - (prestamos[b].fecha_prestamo
           + timedelta_days(DuracionBasePorTipo(recursos[prestamos[b].recurso].tipo)))
    < TicksPorDia

C8_SinRetrasoNoHayMulta ==
  /\ (op.kind = "estrategia.calcular_multa" /\ op.dias_retraso <= 0) => op.valor = 0
  /\ (op.kind = "calcular_multa" /\ prestamos[op.prestamo].estrategia # Ninguna
      /\ MenosDeUnDiaVencido(op.prestamo)) =>
       (op.error = "" /\ op.valor = 0)

\* the student strategy called with a negative lateness
C8_Testigo ==
  /\ op.kind = "estrategia.calcular_multa"
  /\ op.estrategia = "MultaEstudianteStrategy"
  /\ op.dias_retraso < 0

\* C9: for dias_retraso >= 1 the student strategy returns max(1.00, 2.00 * days)
\* for a resource aged at most 1825 days and max(1.00, 2.00 * days * 0.5) for an
\* older one; never less than 1.00.
C9_MultaEstudiante ==
  (op.kind = "estrategia.calcular_multa" /\ op.estrategia = "MultaEstudianteStrategy"
   /\ op.dias_retraso >= 1) =>
    /\ op.valor = IF calcular_antiguedad_dias(op.recurso) <= 1825
                    THEN Max(1000, 2000 * op.dias_retraso)
                    ELSE Max(1000, 1000 * op.dias_retraso)
    /\ op.valor >= 1000

\* ten days late on a resource past the threshold: 10.00
C9_Testigo ==
  /\ op.kind = "estrategia.calcular_multa"
  /\ op.estrategia = "MultaEstudianteStrategy"
  /\ op.dias_retraso = 10
  /\ calcular_antiguedad_dias(op.recurso) > 1825
  /\ op.valor = 10000

\* C10: the faculty strategy returns 1.00 * max(0, days - 3) for every
\* dias_retraso, whatever the resource.
C10_MultaDocente ==
  (op.kind = "estrategia.calcular_multa" /\ op.estrategia = "MultaDocenteStrategy") =>
    op.valor = 1000 * Max(0, op.dias_retraso - 3)

\* ten days late: 7.00
C10_Testigo ==
  /\ op.kind = "estrategia.calcular_multa"
  /\ op.estrategia = "MultaDocenteStrategy"
  /\ op.dias_retraso = 10
  /\ op.valor = 7000

\* C11: for dias_retraso >= 1 the progressive strategy's day-by-day sum (day d
\* at 3.00 + 0.50 * (d - 1)) equals the closed form
\* 3.00 * days + 0.50 * days * (days - 1) / 2.
C11_MultaRecargadaFormaCerrada ==
  (op.kind = "estrategia.calcular_multa" /\ op.estrategia = "MultaRecargadaStrategy"
   /\ op.dias_retraso >= 1) =>
    op.valor = 3000 * op.dias_retraso
               + (500 * op.dias_retraso * (op.dias_retraso - 1)) \div 2

\* three days late: 10.50
C11_Testigo ==
  /\ op.kind = "estrategia.calcular_multa"
  /\ op.estrategia = "MultaRecargadaStrategy"
  /\ op.dias_retraso = 3
  /\ op.valor = 10500

\* C12: for dias_retraso >= 1 the age-tiered strategy returns rate * days with
\* the rate 5.00 for an age under 365 days, 2.50 for an age of 365 to 1825 days
\* inclusive, and 1.00 only for an age over 1825 days.
C12_MultaPorAntiguedad ==
  (op.kind = "estrategia.calcular_multa"
   /\ op.estrategia = "MultaPorAntiguedadRecursoStrategy" /\ op.dias_retraso >= 1) =>
    op.valor = op.dias_retraso *
               (IF calcular_antiguedad_dias(op.recurso) < 365 THEN 5000
                ELSE IF calcular_antiguedad_dias(op.recurso) <= 1825 THEN 2500
                ELSE 1000)

\* C13: two chains that hold the same decorators, each the same number of
\* times, over base loans on resources of the same type have the same
\* obtener_duracion_dias() and the same obtener_costo_base(), whatever the
\* order the decorators were applied in.
MismosDecoradores(p, q) ==
  \A clase \in ClasesDecorador : VecesEnCadena(p, clase) = VecesEnCadena(q, clase)

C13_ElOrdenNoCambiaDuracionNiCosto ==
  \A p, q \in DOMAIN prestamos :
    (TipoDelRecursoDe(p) = TipoDelRecursoDe(q) /\ MismosDecoradores(p, q)) =>
      /\ obtener_duracion_dias(p) = obtener_duracion_dias(q)
      /\ obtener_costo_base(p) = obtener_costo_base(q)

\* a reservation over a notification and a notification over a reservation
C13_Testigo ==
  \E p, q \in Decoradores :
    /\ MismosDecoradores(p, q)
    /\ prestamos[p].clase = "DecoradorReservaPreferencial"
    /\ prestamos[q].clase = "DecoradorNotificacionSMS"
    /\ VecesEnCadena(p, "DecoradorReservaPreferencial") = 1
    /\ VecesEnCadena(p, "DecoradorNotificacionSMS") = 1
    /\ VecesEnCadena(p, "DecoradorSeguroExtravio") = 0

\* C14: the items an invoice is created with are one SERVICIO item per decorator
\* of its chain, from the outermost to the innermost, each of quantity 1 and
\* priced at that decorator's own cost (5.00, 10.00 or 15.00), and no RECURSO
\* item; so an invoice without a fine has obtener_costo_base() of the chain as
\* its subtotal.
RECURSIVE Profundidad(_)
Profundidad(p) == IF EsBase(p) THEN 0 ELSE 1 + Profundidad(prestamos[p].prestamo_envuelto)

RECURSIVE NodoDeLaCadena(_, _)
NodoDeLaCadena(p, i) ==
  IF i = 1 THEN p ELSE NodoDeLaCadena(prestamos[p].prestamo_envuelto, i - 1)

PrecioDelServicio(clase) ==
  CASE clase = "DecoradorNotificacionSMS" -> 5000
    [] clase = "DecoradorReservaPreferencial" -> 10000
    [] clase = "DecoradorSeguroExtravio" -> 15000

EsMulta(item) == item.tipo = "MULTA"
NoEsMulta(item) == item.tipo # "MULTA"

C14_ItemsDeLaCadena ==
  \A f \in DOMAIN facturas_generadas :
    LET factura == facturas_generadas[f]
        servicios == SelectSeq(factura.items, NoEsMulta)
    IN  /\ Len(servicios) = Profundidad(factura.prestamo)
        /\ \A i \in DOMAIN servicios :
             servicios[i] =
               [tipo |-> "SERVICIO", cantidad |-> 1,
                valor_unitario |->
                  PrecioDelServicio(prestamos[NodoDeLaCadena(factura.prestamo, i)].clase)]
        /\ Multas(factura) = {} =>
             calcular_subtotal(factura) = obtener_costo_base(factura.prestamo)

\* an invoice for a notification, a reservation and an insurance: 15.00, 10.00, 5.00
C14_Testigo ==
  \E f \in DOMAIN facturas_generadas :
    /\ Len(facturas_generadas[f].items) = 3
    /\ facturas_generadas[f].items[1].valor_unitario = 15000
    /\ facturas_generadas[f].items[2].valor_unitario = 10000
    /\ facturas_generadas[f].items[3].valor_unitario = 5000
    /\ calcular_total(facturas_generadas[f], 0) = 30000

\* C15: agregar_multa() that does not fail, on an invoice whose base loan is
\* late, appends one MULTA item of quantity 1 priced at calcular_multa(), returns
\* that amount and raises the total by it; on an invoice whose base loan is not
\* late it leaves the items as they are and returns 0.0.
C15_AgregarMulta ==
  [][ (op'.kind = "agregar_multa" /\ op'.error = "") =>
        LET f == op'.factura
            factura == facturas_generadas[f]
            b == factura.prestamo_base
        IN  IF calcular_dias_retraso(b) > 0
              THEN /\ facturas_generadas'[f].items =
                        Append(factura.items,
                               [tipo |-> "MULTA", cantidad |-> 1,
                                valor_unitario |-> calcular_multa(b).valor])
                   /\ op'.valor = calcular_multa(b).valor
                   /\ calcular_total(facturas_generadas'[f], 0) =
                        calcular_total(factura, 0) + calcular_multa(b).valor
              ELSE /\ facturas_generadas'[f].items = factura.items
                   /\ op'.valor = 0
    ]_vars

\* the faculty fine of ten days added to an invoice of 30.00: 37.00
C15_Testigo ==
  /\ op.kind = "agregar_multa"
  /\ op.valor = 7000
  /\ Cardinality(Multas(facturas_generadas[op.factura])) = 1
  /\ calcular_total(facturas_generadas[op.factura], 0) = 37000

\* C16: agregar_multa() called again on an invoice, right after a call that
\* succeeded, leaves the invoice's items and total as the first call left them:
\* an invoice does not get a second MULTA item.
C16_AgregarMultaIdempotente ==
  [][ ( /\ op.kind = "agregar_multa" /\ op.error = ""
        /\ op'.kind = "agregar_multa" /\ op'.factura = op.factura ) =>
        /\ facturas_generadas'[op.factura].items = facturas_generadas[op.factura].items
        /\ Cardinality(Multas(facturas_generadas'[op.factura])) <= 1
    ]_vars

\* C17: a recorded invoice is not changed by generar_factura_texto(), whatever
\* its argument, nor by reading its subtotal, tax and total.
C17_FacturaInmutable ==
  [][ op'.kind \in {"generar_factura_texto", "calcular_total"} =>
        facturas_generadas' = facturas_generadas ]_vars

\* C18: the ledger holds one invoice per crear_factura() that succeeded,
\* obtener_total_facturado() is the sum of the recorded invoices' totals as they
\* are now, and their numbers grow strictly in recording order.
RECURSIVE SumaDeTotales(_)
SumaDeTotales(n) ==
  IF n = 0 THEN 0
  ELSE SumaDeTotales(n - 1) + calcular_subtotal(facturas_generadas[n])

C18_LibroDeFacturas ==
  /\ [](/\ obtener_total_facturado = SumaDeTotales(Len(facturas_generadas))
        /\ \A i, j \in DOMAIN facturas_generadas :
             i < j => facturas_generadas[i].numero < facturas_generadas[j].numero)
  /\ obtener_cantidad_facturas = 0
  /\ [][ obtener_cantidad_facturas' =
           obtener_cantidad_facturas
           + (IF op'.kind = "crear_factura" /\ op'.error = "" THEN 1 ELSE 0) ]_vars

\* two invoices recorded, one of them with a fine
C18_Testigo ==
  /\ op.kind = "crear_factura"
  /\ obtener_cantidad_facturas = 2
  /\ obtener_total_facturado >= 7000
  /\ facturas_generadas[1].numero < facturas_generadas[2].numero

\* C19: agregar_recurso_con_fabrica() with keyword arguments that leave out a
\* required field (the title or the isbn) fails, and the inventory is after it
\* what it was before.
CamposRequeridos == {"titulo", "isbn"}

C19_CargaIncompletaNoRegistra ==
  [][ (op'.kind = "agregar_recurso"
       /\ ~(CamposRequeridos \subseteq DOMAIN op'.kwargs)) =>
        /\ op'.error # ""
        /\ recursos' = recursos ]_vars

\* C20: no two resources of the inventory have the same isbn.
C20_IsbnUnico ==
  \A i, j \in DOMAIN recursos :
    i # j => recursos[i].isbn # recursos[j].isbn

\* C21: devolver_recurso() changes nothing but the availability of the loan's
\* resource: every loan keeps its start date and strategy, so calcular_dias_retraso()
\* and calcular_multa() of the returned loan give after the return what they gave
\* before it; and agregar_multa() on an invoice of a returned loan that is late
\* still appends the MULTA item of its fine.
C21_DevolverSoloCambiaDisponibilidad ==
  [][ \A b \in Bases :
        /\ (op'.kind = "devolver_recurso" /\ op'.prestamo = b) =>
             /\ prestamos' = prestamos
             /\ recursos' = [recursos EXCEPT ![prestamos[b].recurso].disponible = TRUE]
             /\ calcular_dias_retraso(b)' = calcular_dias_retraso(b)
             /\ calcular_multa(b)' = calcular_multa(b)
        /\ ( /\ op'.kind = "agregar_multa"
             /\ facturas_generadas[op'.factura].prestamo_base = b
             /\ b \in devueltos
             /\ calcular_dias_retraso(b) > 0
             /\ prestamos[b].estrategia # Ninguna ) =>
             /\ op'.error = ""
             /\ facturas_generadas'[op'.factura].items =
                  Append(facturas_generadas[op'.factura].items,
                         ItemFactura("MULTA", calcular_multa(b).valor))
    ]_vars

\* the student fine of one day, 2.00, invoiced after the book came back
C21_Testigo ==
  /\ op.kind = "agregar_multa"
  /\ op.valor = 2000
  /\ facturas_generadas[op.factura].prestamo_base \in devueltos
  /\ recursos[prestamos[facturas_generadas[op.factura].prestamo_base].recurso].disponible
  /\ Cardinality(Multas(facturas_generadas[op.factura])) = 1

\* C22: a loan is late only once the clock is past its start date plus the
\* duration of the chain built on it: until then calcular_dias_retraso() of the
\* base loan is 0 and calcular_multa() is 0.0, so a loan under a
\* DecoradorReservaPreferencial is not fined during its seven additional days.
C22_RetrasoSegunLaCadena ==
  \A p \in DOMAIN prestamos :
    LET b == prestamo_base_de(p)
    IN  reloj <= prestamos[b].fecha_prestamo + timedelta_days(obtener_duracion_dias(p))
          => /\ calcular_dias_retraso(b) = 0
             /\ calcular_multa(b).valor = 0

\* C23: the costo_base_recurso that calcular_multa() hands to the strategy of a
\* late loan is the accumulated cost of the loan with the services of its
\* decorators: 5.00 for a loan under one DecoradorNotificacionSMS.
C23_CostoEntregadoALaEstrategia ==
  ( /\ op.kind = "calcular_multa"
    /\ op.error = ""
    /\ calcular_dias_retraso(op.prestamo) > 0 ) =>
    \A p \in DOMAIN prestamos :
      ( /\ prestamo_base_de(p) = op.prestamo
        /\ \A q \in Decoradores : prestamos[q].prestamo_envuelto # p )
      => op.costo_base_recurso = obtener_costo_base(p)

\* C24: crear_factura() that fails (incluir_multa on a late loan with no
\* strategy bound) leaves the GestorFacturacion as it was: the invoices recorded,
\* their count, the total invoiced and the counter of invoice numbers, so the
\* numbers of the recorded invoices stay 1, 2, 3, ... with no gap.
C24_FacturaFallidaNoDejaRastro ==
  /\ [][ (op'.kind = "crear_factura" /\ op'.error # "") =>
           /\ facturas_generadas' = facturas_generadas
           /\ obtener_cantidad_facturas' = obtener_cantidad_facturas
           /\ obtener_total_facturado' = obtener_total_facturado
           /\ contador_facturas' = contador_facturas ]_vars
  /\ [](\A i \in DOMAIN facturas_generadas : facturas_generadas[i].numero = i)

MultaAgregada(f) ==
  LET items == facturas_generadas'[f].items
  IN  /\ items # <<>>
      /\ items[Len(items)].tipo = "MULTA"
      /\ f \in DOMAIN facturas_generadas => Len(facturas_generadas[f].items) < Len(items)

FragmentoEsperado(clase) ==
  CASE clase = "DecoradorNotificacionSMS" -> "Notificacion SMS"
    [] clase = "DecoradorReservaPreferencial" -> "Reserva Preferencial"
    [] clase = "DecoradorSeguroExtravio" -> "Seguro contra Extravio"

ClasesDeLaCadena(p) ==
  [i \in 1..Profundidad(p) |-> prestamos[NodoDeLaCadena(p, Profundidad(p) - i + 1)].clase]

C27_DescripcionEnOrdenDeAplicacion ==
  /\ \A p \in DOMAIN prestamos :
       obtener_descripcion(p) =
         obtener_descripcion(prestamo_base_de(p))
         \o [i \in 1..Profundidad(p) |-> FragmentoEsperado(ClasesDeLaCadena(p)[i])]
  /\ \A p, q \in DOMAIN prestamos :
       ( /\ prestamo_base_de(p) = prestamo_base_de(q)
         /\ MismosDecoradores(p, q)
         /\ ClasesDeLaCadena(p) # ClasesDeLaCadena(q) )
       => obtener_descripcion(p) # obtener_descripcion(q)

\* a reservation over a notification and a notification over a reservation
\* on the same loan, described in opposite orders
C27_Testigo ==
  \E p, q \in Decoradores :
    /\ obtener_descripcion(p) =
         <<"Prestamo de", "Refactoring", "Notificacion SMS", "Reserva Preferencial">>
    /\ obtener_descripcion(q) =
         <<"Prestamo de", "Refactoring", "Reserva Preferencial", "Notificacion SMS">>

\* C28: for the same late loan, the same days of lateness (1 or more) and the
\* same resource, whatever its age, MultaEstudianteStrategy and
\* MultaDocenteStrategy give different fines and the student's is the greater:
\* 16.00 against 5.00 at 8 days late for a book of four years.
C28_EstudiantePagaMasQueDocente ==
  (op.kind = "estrategia.calcular_multa" /\ op.dias_retraso >= 1) =>
    LET estudiante == MultaEstudiante_calcular_multa(op.dias_retraso, op.costo, op.recurso)
        docente == MultaDocente_calcular_multa(op.dias_retraso, op.costo, op.recurso)
    IN  /\ op.estrategia = "MultaEstudianteStrategy" =>
             (op.valor = estudiante /\ op.valor > docente)
        /\ op.estrategia = "MultaDocenteStrategy" =>
             (op.valor = docente /\ op.valor < estudiante)

\* the mandatory scenario: 8 days late, a book of four years, 16.00 and 5.00
C28_Testigo ==
  /\ op.kind = "estrategia.calcular_multa"
  /\ op.estrategia = "MultaEstudianteStrategy"
  /\ op.dias_retraso = 8
  /\ recursos[op.recurso].tipo = "LibroImpreso"
  /\ calcular_antiguedad_dias(op.recurso) = 4 * DIAS_POR_ANIO
  /\ op.valor = 16000
  /\ MultaDocente_calcular_multa(op.dias_retraso, op.costo, op.recurso) = 5000

\* C29: building a decorator around a loan changes nothing of what exists: every
\* node built before keeps its record (start date and strategy included) and
\* reports the same obtener_duracion_dias(), obtener_costo_base() and
\* obtener_descripcion(), and every resource keeps its availability; the new
\* node alone reports the wrapped loan's values plus its own service.
C29_DecorarNoCambiaLoEnvuelto ==
  [][ op'.kind = "decorar" =>
        /\ recursos' = recursos
        /\ \A q \in DOMAIN prestamos :
             /\ prestamos'[q] = prestamos[q]
             /\ obtener_duracion_dias(q)' = obtener_duracion_dias(q)
             /\ obtener_costo_base(q)' = obtener_costo_base(q)
             /\ obtener_descripcion(q)' = obtener_descripcion(q)
        /\ \A n \in DOMAIN prestamos' : \A q \in DOMAIN prestamos :
             (n = Len(prestamos) + 1 /\ prestamos'[n].prestamo_envuelto = q) =>
               /\ obtener_costo_base(n)' =
                    obtener_costo_base(q) + PrecioDelServicio(prestamos'[n].clase)
               /\ obtener_duracion_dias(n)' =
                    obtener_duracion_dias(q)
                    + (IF prestamos'[n].clase = "DecoradorReservaPreferencial" THEN 7 ELSE 0)
               /\ obtener_descripcion(n)' =
                    Append(obtener_descripcion(q), FragmentoEsperado(prestamos'[n].clase))
    ]_vars

\* a notification just built on a base loan: 5.00 outside, 0.00 inside
C29_Testigo ==
  /\ op.kind = "decorar"
  /\ prestamos[op.prestamo].clase = "DecoradorNotificacionSMS"
  /\ EsBase(prestamos[op.prestamo].prestamo_envuelto)
  /\ obtener_costo_base(op.prestamo) = 5000
  /\ obtener_costo_base(prestamos[op.prestamo].prestamo_envuelto) = 0
  /\ ~recursos[prestamos[prestamos[op.prestamo].prestamo_envuelto].recurso].disponible

\* C30: after the start date of a base loan is set to now minus (the base
\* duration of its resource + d) days, calcular_dias_retraso() of that loan is
\* exactly d, for every type of resource, every d >= 1 and whatever decorators
\* have been built on the loan.
C30_RetrasoSimuladoExacto ==
  op.kind = "simular_retraso" =>
    /\ prestamos[op.prestamo].fecha_prestamo =
         reloj - timedelta_days(DuracionBasePorTipo(TipoDelRecursoDe(op.prestamo)) + op.dias)
    /\ calcular_dias_retraso(op.prestamo) = op.dias

\* a digital resource under a reservation, back-dated to be three days late
C30_Testigo ==
  /\ op.kind = "simular_retraso"
  /\ op.dias = 3
  /\ TipoDelRecursoDe(op.prestamo) = "RecursoDigital"
  /\ calcular_dias_retraso(op.prestamo) = 3
  /\ \E q \in Decoradores :
       /\ prestamos[q].clase = "DecoradorReservaPreferencial"
       /\ prestamo_base_de(q) = op.prestamo

\* C25: in a session of InterfazBiblioteca, whatever menu operations have run,
\* a resource of the inventory is on loan exactly when one entry, and only
\* one, of prestamos_activos has it as the resource of its base loan; so every
\* resource on loan can be picked in the return menu.
EntradasDelRecurso(r) ==
  {i \in DOMAIN prestamos_activos :
     prestamos[prestamo_base_de(prestamos_activos[i])].recurso = r}

C25_PrestadoSiYSoloSiActivo ==
  \A r \in DOMAIN recursos :
    ~recursos[r].disponible <=> Cardinality(EntradasDelRecurso(r)) = 1

====
